---- MODULE Spec2Model ----
(***************************************************************************)
(* One proxy session of backend/main.py: handle_client (the Auth Gate),    *)
(* create_proxy (connector, relay, teardown) and the two proxy_task        *)
(* forwarding loops, interleaved at their await points, with the client    *)
(* and the upstream peer as the environment.                               *)
(***************************************************************************)
EXTENDS Naturals, Sequences, FiniteSets

\* ------------------------------------------------------------------ bounds

\* Frames the two peers may emit, in all, during one session.
MaxFrames == 2

\* ------------------------------------------------------------ value domain

Conns == {"client", "server"}

\* "c2s" is proxy_task(client_websocket, server_websocket, "client->server"),
\* "s2c" is proxy_task(server_websocket, client_websocket, "server->client").
Dirs == {"c2s", "s2c"}

Src(d) == IF d = "c2s" THEN "client" ELSE "server"

Dst(d) == IF d = "c2s" THEN "server" ELSE "client"

Other(d) == IF d = "c2s" THEN "s2c" ELSE "c2s"

\* Frames a peer can emit: a text frame holding JSON that is not in
\* json.dumps' canonical spacing, a text frame that is not JSON, a text
\* frame of JSON nested beyond the parser's recursion limit ("[[" stands
\* for the run of brackets), and a binary frame.
Frames ==
    { [kind |-> "text",   payload |-> <<"{", " ", "}">>],
      [kind |-> "text",   payload |-> <<"h", "i">>],
      [kind |-> "text",   payload |-> <<"[[", "]]">>],
      [kind |-> "binary", payload |-> <<"b">>] }

NoFrame == [kind |-> "none", payload |-> <<>>]

\* Close codes a peer can end its connection with: 1000, a close frame for
\* a normal closure, and 1006, no close frame at all.
PeerCodes == {1000, 1006}

\* The reason string a peer's close carries.
PeerReason(code) == IF code = 1000 THEN <<"bye">> ELSE <<>>

\* str(e) of an exception raised by the transport: may be empty.
Causes == { <<>>, <<"refused">> }

\* ------------------------------------------------------------------ errors

\* WebSocketError(message, code=1011); "origin" records where it was raised.
WebSocketError(origin, message, code) ==
    [origin |-> origin, msg |-> message, code |-> code]

NoErr == [origin |-> "none", msg |-> <<>>, code |-> 0]

\* ------------------------------------------------------------------- state

VARIABLES
    pc,         \* position of handle_client / create_proxy
    conn,       \* connection state of each websocket ("NONE": not created)
    peerCode,   \* close code the peer ended each connection with (0: none)
    wire,       \* what the relay wrote on each connection, in order
    inq,        \* frames received by the library, not yet read by the loop
    recvd,      \* frames each loop has read from its source, in order
    lpc,        \* position of each proxy_task
    task,       \* outcome of each proxy_task
    cancelReq,  \* task.cancel() has been called on the task
    brk,        \* why a loop left its async-for by break
    done,       \* the done set asyncio.wait returned
    order,      \* the order in which the tasks ended
    err,        \* the exception create_proxy / handle_client is handling
    handoff,    \* create_proxy's api_key and service_url, until it connects
    connectCalls, \* number of websockets.connect calls
    auth_message \* what the wait for the first frame gave, until last read

vars == <<pc, conn, peerCode, wire, inq, recvd, lpc, task, cancelReq, brk,
          done, order, err, handoff, connectCalls, auth_message>>

\* ------------------------------------------------- json (Frame Classifier)

RECURSIVE StripSpaces(_)
\* The tokens of a payload with JSON whitespace removed.
StripSpaces(p) ==
    IF p = <<>> THEN <<>>
    ELSE IF Head(p) = " " THEN StripSpaces(Tail(p))
    ELSE <<Head(p)>> \o StripSpaces(Tail(p))

\* json.loads of a text payload: the parsed value, JSONDecodeError, or the
\* RecursionError the parser raises on nesting beyond its limit.
json_loads(p) ==
    IF StripSpaces(p) = <<"{", "}">>
    THEN [ok |-> TRUE, value |-> "emptydict"]
    ELSE IF StripSpaces(p) = <<"[[", "]]">>
    THEN [ok |-> FALSE, value |-> "RecursionError"]
    ELSE [ok |-> FALSE, value |-> "JSONDecodeError"]

\* json.dumps of a parsed value: canonical spacing.
json_dumps(v) == <<"{", "}">>

\* ------------------------------------------------- connection state tracker

get_websocket_state(c) == conn[c]

\* Mutant: the state is not looked at.
is_websocket_open_unchecked(c) == TRUE

is_websocket_open(c) == get_websocket_state(c) = "OPEN"

\* ------------------------------------------------------- writes on the wire

FwdEv(f, st) == [t |-> "fwd", f |-> f, code |-> 0, msg |-> <<>>, st |-> st]

ErrEv(m, st) == [t |-> "error", f |-> NoFrame, code |-> 0, msg |-> m, st |-> st]

SetupEv(st) == [t |-> "setup", f |-> NoFrame, code |-> 0, msg |-> <<>>, st |-> st]

CloseEv(code, reason, st) ==
    [t |-> "close", f |-> NoFrame, code |-> code, msg |-> reason, st |-> st]

\* ws.send / ws.close reaching the transport of connection c.
Written(c, ev) == [wire EXCEPT ![c] = Append(@, ev)]

\* The events of kind t the relay wrote on connection c.
Events(c, t) == SelectSeq(wire[c], LAMBDA e : e.t = t)

\* Mutant: ws.close is called whatever the state of the connection.
close_websocket_wire_unguarded(c, code, reason) ==
    Written(c, CloseEv(code, reason, conn[c]))

\* Mutant: the close leaves the connection as it was.
close_websocket_conn_skipped(c) == conn

\* close_websocket(ws, code, reason): ws.close only when the state is OPEN;
\* every exception is swallowed. ws.close returns with the connection CLOSED.
close_websocket_wire(c, code, reason) ==
    IF is_websocket_open(c)
    THEN Written(c, CloseEv(code, reason, conn[c]))
    ELSE wire

close_websocket_conn(c) ==
    IF is_websocket_open(c) THEN [conn EXCEPT ![c] = "CLOSED"] ELSE conn

\* send_websocket_message(ws, {"error": str(e)}): json.dumps of the dict is
\* sent when the state is OPEN; the result is ignored by the callers.
send_error_wire(c, m) ==
    IF is_websocket_open(c) THEN Written(c, ErrEv(m, conn[c])) ELSE wire

\* ---------------------------------------------------------------- auth gate

\* First frames a client can send.
AuthFrames ==
    { "rawkey123", "", "123", "{api_key:k1}", "{api_key:k1,service_url:u1}",
      "{}", "{api_key:''}", "{bearer_token:'{api_key:k2}'}" }

\* json.loads(auth_message) and the two .get calls on a mapping.
json_loads_auth(raw) ==
    CASE raw \in {"rawkey123", ""} ->
            [ok |-> FALSE, isdict |-> FALSE, api_key |-> "None", service_url |-> "None"]
      [] raw = "123" ->
            [ok |-> TRUE, isdict |-> FALSE, api_key |-> "None", service_url |-> "None"]
      [] raw = "{api_key:k1}" ->
            [ok |-> TRUE, isdict |-> TRUE, api_key |-> "k1", service_url |-> "None"]
      [] raw = "{api_key:k1,service_url:u1}" ->
            [ok |-> TRUE, isdict |-> TRUE, api_key |-> "k1", service_url |-> "u1"]
      [] raw = "{api_key:''}" ->
            [ok |-> TRUE, isdict |-> TRUE, api_key |-> "", service_url |-> "None"]
      [] OTHER ->
            [ok |-> TRUE, isdict |-> TRUE, api_key |-> "None", service_url |-> "None"]

\* Mutant: only a missing value counts as no value.
Truthy_unless_none(s) == s # "None"

\* Python truthiness of an optional string.
Truthy(s) == s \notin {"None", ""}

NoHandoff == [api_key |-> "None", service_url |-> "None"]

\* ------------------------------------------------------------------- Init

NoTask == [st |-> "none", msg |-> <<>>, code |-> 0]

Running == [st |-> "running", msg |-> <<>>, code |-> 0]

Init ==
    /\ pc = "auth"
    /\ conn = [c \in Conns |-> IF c = "client" THEN "OPEN" ELSE "NONE"]
    /\ peerCode = [c \in Conns |-> 0]
    /\ wire = [c \in Conns |-> <<>>]
    /\ inq = [d \in Dirs |-> <<>>]
    /\ recvd = [d \in Dirs |-> <<>>]
    /\ lpc = [d \in Dirs |-> "idle"]
    /\ task = [d \in Dirs |-> NoTask]
    /\ cancelReq = [d \in Dirs |-> FALSE]
    /\ brk = [d \in Dirs |-> "none"]
    /\ done = {}
    /\ order = <<>>
    /\ err = NoErr
    /\ handoff = NoHandoff
    /\ connectCalls = 0
    /\ auth_message = "pending"

\* ------------------------------------------------------------ environment

\* Frames the peers have emitted so far.
Emitted ==
    Len(inq["c2s"]) + Len(recvd["c2s"]) + Len(inq["s2c"]) + Len(recvd["s2c"])

\* A peer emits a frame towards the relay; the library queues it for the
\* loop that reads that connection.
PeerSends(d, f) ==
    /\ pc = "wait"
    /\ conn[Src(d)] = "OPEN"
    /\ Emitted < MaxFrames
    /\ inq' = [inq EXCEPT ![d] = Append(@, f)]
    /\ UNCHANGED <<pc, conn, peerCode, wire, recvd, lpc, task, cancelReq, brk,
                   done, order, err, handoff, connectCalls,
                   auth_message>>

\* A peer ends connection c: with a close frame (the state passes through
\* CLOSING) or, for 1006, with no close frame at all.
PeerCloses(c, code) ==
    /\ pc # "done"
    /\ conn[c] = "OPEN"
    /\ conn' = [conn EXCEPT ![c] = IF code = 1006 THEN "CLOSED" ELSE "CLOSING"]
    /\ peerCode' = [peerCode EXCEPT ![c] = code]
    /\ UNCHANGED <<pc, wire, inq, recvd, lpc, task, cancelReq, brk, done,
                   order, err, handoff, connectCalls,
                   auth_message>>

\* The closing handshake a peer started completes.
PeerClosed(c) ==
    /\ conn[c] = "CLOSING"
    /\ conn' = [conn EXCEPT ![c] = "CLOSED"]
    /\ UNCHANGED <<pc, peerCode, wire, inq, recvd, lpc, task, cancelReq, brk,
                   done, order, err, handoff, connectCalls,
                   auth_message>>

\* ------------------------------------------------------------ handle_client

\* Mutant: the close of the timeout handler is given no code and reason.
timeout_close_default ==
    close_websocket_wire("client", 1000, <<"Normal closure">>)

\* close_websocket(client_websocket, 4001, "Authentication timeout").
timeout_close ==
    close_websocket_wire("client", 4001, <<"Authentication timeout">>)

\* asyncio.wait_for(client_websocket.recv(), timeout=10.0) times out.
AuthTimeout ==
    /\ pc = "auth"
    /\ auth_message' = "TimeoutError"
    /\ wire' = timeout_close
    /\ conn' = close_websocket_conn("client")
    /\ pc' = "done"
    /\ UNCHANGED <<peerCode, inq, recvd, lpc, task, cancelReq, brk, done,
                   order, err, handoff, connectCalls>>

\* recv() raises ConnectionClosed: the client left before its first frame.
AuthRecvClosed ==
    /\ pc = "auth"
    /\ conn["client"] = "CLOSED"
    /\ auth_message' = "ConnectionClosed"
    /\ err' = WebSocketError("auth_recv", <<"closed">>, 1011)
    /\ pc' = "hc_send"
    /\ UNCHANGED <<conn, peerCode, wire, inq, recvd, lpc, task, cancelReq,
                   brk, done, order, handoff, connectCalls>>

\* Mutant: a first frame that is no mapping yields no key.
extract_api_key_mapping_only(raw) ==
    IF json_loads_auth(raw).ok /\ json_loads_auth(raw).isdict
    THEN json_loads_auth(raw).api_key
    ELSE "None"

\* api_key as handle_client computes it: auth_data.get("api_key") of a
\* mapping, the raw frame when it is not JSON or no mapping.
extract_api_key(raw) ==
    IF ~json_loads_auth(raw).ok \/ ~json_loads_auth(raw).isdict
    THEN raw
    ELSE json_loads_auth(raw).api_key

\* service_url: auth_data.get("service_url") of a mapping, else None.
extract_service_url(raw) ==
    IF json_loads_auth(raw).ok /\ json_loads_auth(raw).isdict
    THEN json_loads_auth(raw).service_url
    ELSE "None"

\* The first frame arrives and is parsed: the key is extracted and
\* create_proxy entered, or WebSocketError(..., 4000) raised.
AuthRecv(raw) ==
    /\ pc = "auth"
    /\ conn["client"] = "OPEN"
    /\ auth_message' = raw
    /\ LET auth_data == json_loads_auth(raw)
           api_key == extract_api_key(raw)
           service_url == extract_service_url(raw)
       IN IF auth_data.ok /\ ~Truthy(api_key)
          THEN /\ err' = WebSocketError("auth",
                            <<"API key not found in auth message">>, 4000)
               /\ pc' = "hc_send"
               /\ UNCHANGED handoff
          ELSE /\ handoff' = [api_key |-> api_key, service_url |-> service_url]
               /\ pc' = "connect"
               /\ UNCHANGED err
    /\ UNCHANGED <<conn, peerCode, wire, inq, recvd, lpc, task, cancelReq,
                   brk, done, order, connectCalls>>

\* except WebSocketError / except Exception of handle_client: the error frame.
HcSend ==
    /\ pc = "hc_send"
    /\ wire' = send_error_wire("client", err.msg)
    /\ pc' = "hc_close"
    /\ UNCHANGED <<conn, peerCode, inq, recvd, lpc, task, cancelReq, brk,
                   done, order, err, handoff, connectCalls,
                   auth_message>>

\* ... and the close with the error's code.
HcClose ==
    /\ pc = "hc_close"
    /\ wire' = close_websocket_wire("client", err.code, err.msg)
    /\ conn' = close_websocket_conn("client")
    /\ pc' = "done"
    /\ UNCHANGED <<peerCode, inq, recvd, lpc, task, cancelReq, brk, done,
                   order, err, handoff, connectCalls,
                   auth_message>>

\* ------------------------------------------------------------- create_proxy

\* Mutant: the cause alone is the message.
connect_error_bare(cause) == WebSocketError("connect", cause, 1011)

\* The WebSocketError raised when websockets.connect fails.
connect_error(cause) ==
    WebSocketError("connect", <<"Failed to connect to server:">> \o cause, 1011)

\* websockets.connect(uri, ...) returns a live connection. api_key and
\* service_url are read to build uri and never again after the call, and
\* auth_message is not read after create_proxy was called with it.
ConnectOk ==
    /\ pc = "connect"
    /\ connectCalls' = connectCalls + 1
    /\ conn' = [conn EXCEPT !["server"] = "OPEN"]
    /\ handoff' = NoHandoff
    /\ auth_message' = "used"
    /\ pc' = "setup"
    /\ UNCHANGED <<peerCode, wire, inq, recvd, lpc, task, cancelReq, brk,
                   done, order, err>>

\* websockets.connect raises: except Exception -> raise WebSocketError.
ConnectFails(cause) ==
    /\ pc = "connect"
    /\ connectCalls' = connectCalls + 1
    /\ err' = connect_error(cause)
    /\ handoff' = NoHandoff
    /\ auth_message' = "used"
    /\ pc' = "cp_send"
    /\ UNCHANGED <<conn, peerCode, wire, inq, recvd, lpc, task, cancelReq,
                   brk, done, order>>

\* server_websocket.send(json.dumps(setup_msg)) succeeds and both proxy
\* tasks are created.
SetupOk ==
    /\ pc = "setup"
    /\ conn["server"] = "OPEN"
    /\ wire' = Written("server", SetupEv(conn["server"]))
    /\ lpc' = [d \in Dirs |-> "recv"]
    /\ task' = [d \in Dirs |-> Running]
    /\ pc' = "wait"
    /\ UNCHANGED <<conn, peerCode, inq, recvd, cancelReq, brk, done, order,
                   err, handoff, connectCalls,
                   auth_message>>

\* The setup send raises (an Exception that is no WebSocketError): handled
\* by the outer except Exception with code 1011.
SetupFails(cause) ==
    /\ pc = "setup"
    /\ err' = WebSocketError("setup", cause, 1011)
    /\ pc' = "cp_send"
    /\ UNCHANGED <<conn, peerCode, wire, inq, recvd, lpc, task, cancelReq,
                   brk, done, order, handoff, connectCalls,
                   auth_message>>

Ended == {"clean", "error", "cancelled"}

\* Mutant: the pending tasks are awaited without being cancelled.
cancel_pending_forgotten(pending) == cancelReq

\* task.cancel() on every task of the pending set.
cancel_pending(pending) == [d \in Dirs |-> cancelReq[d] \/ d \in pending]

\* asyncio.wait(..., return_when=FIRST_COMPLETED) returns: the tasks that
\* have ended by then are done, the others pending, and cancel() is called
\* on each pending one before the first await on it.
WaitReturns ==
    /\ pc = "wait"
    /\ \E d \in Dirs : task[d].st \in Ended
    /\ LET doneNow == {d \in Dirs : task[d].st \in Ended}
       IN /\ done' = doneNow
          /\ cancelReq' = cancel_pending(Dirs \ doneNow)
          /\ pc' = IF doneNow = Dirs THEN "collect" ELSE "cancel"
    /\ UNCHANGED <<conn, peerCode, wire, inq, recvd, lpc, task, brk, order,
                   err, handoff, connectCalls,
                   auth_message>>

\* raise WebSocketError(str(e)) of the except around the forwarding: the
\* message is kept, the code is the default of WebSocketError.
forwarding_error(d) == WebSocketError(d, task[d].msg, 1011)

\* Mutant: the pending task is cancelled but not awaited.
AwaitPending_NoWait ==
    /\ pc = "cancel"
    /\ pc' = "collect"
    /\ UNCHANGED <<conn, peerCode, wire, inq, recvd, lpc, task, cancelReq,
                   brk, done, order, err, handoff, connectCalls,
                   auth_message>>

\* "await task" on the pending task returns: CancelledError is passed
\* over, any other exception goes to the except around the forwarding.
AwaitPending ==
    /\ pc = "cancel"
    /\ \A d \in Dirs \ done : task[d].st \in Ended
    /\ IF \E d \in Dirs \ done : task[d].st = "error"
       THEN /\ \E d \in Dirs \ done :
                  /\ task[d].st = "error"
                  /\ err' = forwarding_error(d)
            /\ pc' = "cp_send"
       ELSE /\ pc' = "collect"
            /\ UNCHANGED err
    /\ UNCHANGED <<conn, peerCode, wire, inq, recvd, lpc, task, cancelReq,
                   brk, done, order, handoff, connectCalls,
                   auth_message>>

\* "for task in done: await task": the first task of the set's iteration
\* order that ended with an exception re-raises it.
Collect ==
    /\ pc = "collect"
    /\ IF \E d \in done : task[d].st = "error"
       THEN /\ \E d \in done :
                  /\ task[d].st = "error"
                  /\ err' = forwarding_error(d)
            /\ pc' = "cp_send"
       ELSE /\ pc' = "finally"
            /\ UNCHANGED err
    /\ UNCHANGED <<conn, peerCode, wire, inq, recvd, lpc, task, cancelReq,
                   brk, done, order, handoff, connectCalls,
                   auth_message>>

\* except WebSocketError / except Exception of create_proxy: the error frame.
CpSend ==
    /\ pc = "cp_send"
    /\ wire' = send_error_wire("client", err.msg)
    /\ pc' = "cp_close"
    /\ UNCHANGED <<conn, peerCode, inq, recvd, lpc, task, cancelReq, brk,
                   done, order, err, handoff, connectCalls,
                   auth_message>>

\* ... and the close with the error's code.
CpClose ==
    /\ pc = "cp_close"
    /\ wire' = close_websocket_wire("client", err.code, err.msg)
    /\ conn' = close_websocket_conn("client")
    /\ pc' = "finally"
    /\ UNCHANGED <<peerCode, inq, recvd, lpc, task, cancelReq, brk, done,
                   order, err, handoff, connectCalls,
                   auth_message>>

\* Mutant: the upstream is closed in the error handlers only.
finally_closes_server_on_error == conn["server"] # "NONE" /\ err # NoErr

\* Mutant: the upstream is closed on the clean path only.
finally_closes_server_unless_error == conn["server"] # "NONE" /\ err = NoErr

\* "if server_websocket:" of the finally block.
finally_closes_server == conn["server"] # "NONE"

\* Mutant: an error of create_proxy reaches the raw-key fallback of
\* handle_client, which calls create_proxy again.
create_proxy_reenters ==
    IF err # NoErr /\ connectCalls <= 1 THEN "connect" ELSE "done"

\* Mutant: an error of create_proxy is raised again to handle_client.
create_proxy_reraises == IF err # NoErr THEN "hc_send" ELSE "done"

\* Where handle_client goes on when "await create_proxy(...)" is over:
\* create_proxy has handled every Exception itself, so no except clause of
\* handle_client runs and handle_client returns.
create_proxy_returns == "done"

\* finally: close the upstream connection; create_proxy and handle_client
\* return.
Finally ==
    /\ pc = "finally"
    /\ IF finally_closes_server
       THEN /\ wire' = close_websocket_wire("server", 1000, <<"Normal closure">>)
            /\ conn' = close_websocket_conn("server")
       ELSE UNCHANGED <<wire, conn>>
    /\ pc' = create_proxy_returns
    /\ UNCHANGED <<peerCode, inq, recvd, lpc, task, cancelReq, brk, done,
                   order, err, handoff, connectCalls,
                   auth_message>>

\* --------------------------------------------------------------- proxy_task

Clean == [st |-> "clean", msg |-> <<>>, code |-> 0]

\* The frame a loop holds: the last one it read from its source.
Message(d) == recvd[d][Len(recvd[d])]

\* A loop step runs only while its task is alive and not cancelled.
Alive(d) == task[d].st = "running" /\ ~cancelReq[d]

\* What the async-for ends with when its source is closed: the iterator
\* stops on a normal closure (1000, 1001) and raises ConnectionClosed
\* otherwise, which proxy_task turns into WebSocketError(..., e.code).
connection_closed(c) ==
    IF peerCode[c] \in {1000, 1001}
    THEN Clean
    ELSE [st |-> "error",
          msg |-> <<"Connection closed:">> \o PeerReason(peerCode[c]),
          code |-> peerCode[c]]

\* Mutant: proxy_task's except Exception catches the cancellation and
\* raises WebSocketError(str(e)).
on_cancelled_as_error(d) == [st |-> "error", msg |-> <<>>, code |-> 1011]

\* What the task ends with when CancelledError is thrown into it: no
\* except clause of proxy_task catches it (it is no Exception).
on_cancelled(d) == [st |-> "cancelled", msg |-> <<>>, code |-> 0]

\* Mutant: the parsed value of a JSON text frame is sent, re-encoded.
proxy_forward_parsed(message) ==
    IF message.kind = "text" /\ json_loads(message.payload).ok
    THEN [kind |-> "text",
          payload |-> json_dumps(json_loads(message.payload).value)]
    ELSE message

\* The message proxy_task hands to send_websocket_message: json.loads is
\* tried on a text frame for the log only.
proxy_forward(message) ==
    IF message.kind = "text"
    THEN LET data == json_loads(message.payload) IN message
    ELSE message

\* "async for message in source_ws" yields the next queued frame.
LoopRecv(d) ==
    /\ Alive(d)
    /\ lpc[d] = "recv"
    /\ inq[d] # <<>>
    /\ recvd' = [recvd EXCEPT ![d] = Append(@, Head(inq[d]))]
    /\ inq' = [inq EXCEPT ![d] = Tail(@)]
    /\ lpc' = [lpc EXCEPT ![d] = "check"]
    /\ UNCHANGED <<pc, conn, peerCode, wire, task, cancelReq, brk, done,
                   order, err, handoff, connectCalls,
                   auth_message>>

\* The source is closed and its queue drained: the loop ends, cleanly or
\* with a WebSocketError.
LoopEos(d) ==
    /\ Alive(d)
    /\ lpc[d] = "recv"
    /\ inq[d] = <<>>
    /\ conn[Src(d)] = "CLOSED"
    /\ task' = [task EXCEPT ![d] = connection_closed(Src(d))]
    /\ lpc' = [lpc EXCEPT ![d] = "ended"]
    /\ order' = Append(order, d)
    /\ UNCHANGED <<pc, conn, peerCode, wire, inq, recvd, cancelReq, brk,
                   done, err, handoff, connectCalls,
                   auth_message>>

\* raise WebSocketError(str(e)) of proxy_task's except Exception.
unexpected_error(cause) == [st |-> "error", msg |-> <<cause>>, code |-> 1011]

\* json.loads raises an exception that "except json.JSONDecodeError" does
\* not catch.
ClassifyRaises(message) ==
    /\ message.kind = "text"
    /\ json_loads(message.payload).value = "RecursionError"

\* The exception leaves the loop through proxy_task's except Exception;
\* the frame is not sent.
LoopUnexpected(d) ==
    /\ Alive(d)
    /\ lpc[d] = "send"
    /\ ClassifyRaises(Message(d))
    /\ task' = [task EXCEPT ![d] =
                   unexpected_error(json_loads(Message(d).payload).value)]
    /\ lpc' = [lpc EXCEPT ![d] = "ended"]
    /\ order' = Append(order, d)
    /\ UNCHANGED <<pc, conn, peerCode, wire, inq, recvd, cancelReq, brk,
                   done, err, handoff, connectCalls,
                   auth_message>>

\* "if not await is_websocket_open(target_ws): break". The peers may act
\* between this check and the send, which is at least what the event loop
\* allows between the two awaits.
LoopCheck(d) ==
    /\ Alive(d)
    /\ lpc[d] = "check"
    /\ IF is_websocket_open(Dst(d))
       THEN /\ lpc' = [lpc EXCEPT ![d] = "send"]
            /\ UNCHANGED <<task, brk, order>>
       ELSE /\ brk' = [brk EXCEPT ![d] = "target_closed"]
            /\ task' = [task EXCEPT ![d] = Clean]
            /\ lpc' = [lpc EXCEPT ![d] = "ended"]
            /\ order' = Append(order, d)
    /\ UNCHANGED <<pc, conn, peerCode, wire, inq, recvd, cancelReq, done,
                   err, handoff, connectCalls,
                   auth_message>>

\* send_websocket_message(target_ws, message): the state is checked again
\* and ws.send writes the frame; a target found not OPEN returns False and
\* the loop breaks.
LoopSend(d) ==
    /\ Alive(d)
    /\ lpc[d] = "send"
    /\ ~ClassifyRaises(Message(d))
    /\ IF is_websocket_open(Dst(d))
       THEN /\ wire' = Written(Dst(d),
                          FwdEv(proxy_forward(Message(d)), conn[Dst(d)]))
            /\ lpc' = [lpc EXCEPT ![d] = "drain"]
            /\ UNCHANGED <<task, brk, order>>
       ELSE /\ brk' = [brk EXCEPT ![d] = "not_sent"]
            /\ task' = [task EXCEPT ![d] = Clean]
            /\ lpc' = [lpc EXCEPT ![d] = "ended"]
            /\ order' = Append(order, d)
            /\ UNCHANGED wire
    /\ UNCHANGED <<pc, conn, peerCode, inq, recvd, cancelReq, done, err,
                   handoff, connectCalls,
                   auth_message>>

\* ws.send completes: send_websocket_message returns True.
LoopSendDone(d) ==
    /\ Alive(d)
    /\ lpc[d] = "drain"
    /\ lpc' = [lpc EXCEPT ![d] = "recv"]
    /\ UNCHANGED <<pc, conn, peerCode, wire, inq, recvd, task, cancelReq,
                   brk, done, order, err, handoff, connectCalls,
                   auth_message>>

\* ws.send raises because the target closed under it: the exception is
\* logged, send_websocket_message returns False and the loop breaks.
LoopSendFails(d) ==
    /\ Alive(d)
    /\ lpc[d] = "drain"
    /\ conn[Dst(d)] # "OPEN"
    /\ brk' = [brk EXCEPT ![d] = "send_failed"]
    /\ task' = [task EXCEPT ![d] = Clean]
    /\ lpc' = [lpc EXCEPT ![d] = "ended"]
    /\ order' = Append(order, d)
    /\ UNCHANGED <<pc, conn, peerCode, wire, inq, recvd, cancelReq, done,
                   err, handoff, connectCalls,
                   auth_message>>

\* CancelledError is thrown into a cancelled task at its pending await.
LoopCancelled(d) ==
    /\ task[d].st = "running"
    /\ cancelReq[d]
    /\ task' = [task EXCEPT ![d] = on_cancelled(d)]
    /\ lpc' = [lpc EXCEPT ![d] = "ended"]
    /\ order' = Append(order, d)
    /\ UNCHANGED <<pc, conn, peerCode, wire, inq, recvd, cancelReq, brk,
                   done, err, handoff, connectCalls,
                   auth_message>>

\* ---------------------------------------------------------- specification

Session ==
    \/ AuthTimeout
    \/ AuthRecvClosed
    \/ \E raw \in AuthFrames : AuthRecv(raw)
    \/ HcSend
    \/ HcClose
    \/ ConnectOk
    \/ \E cause \in Causes : ConnectFails(cause)
    \/ SetupOk
    \/ \E cause \in Causes : SetupFails(cause)
    \/ WaitReturns
    \/ AwaitPending
    \/ Collect
    \/ CpSend
    \/ CpClose
    \/ Finally

Loop(d) ==
    \/ LoopRecv(d)
    \/ LoopEos(d)
    \/ LoopUnexpected(d)
    \/ LoopCheck(d)
    \/ LoopSend(d)
    \/ LoopSendDone(d)
    \/ LoopSendFails(d)
    \/ LoopCancelled(d)

Environment ==
    \/ \E d \in Dirs, f \in Frames : PeerSends(d, f)
    \/ \E c \in Conns, code \in PeerCodes : PeerCloses(c, code)
    \/ \E c \in Conns : PeerClosed(c)

Next ==
    \/ Session
    \/ \E d \in Dirs : Loop(d)
    \/ Environment

Spec == Init /\ [][Next]_vars

\* The event loop runs every task that is ready: the session coroutine and
\* a cancelled task are never left waiting once they can continue. Nothing
\* is assumed of the peers.
FairSpec ==
    /\ Spec
    /\ WF_vars(Session \/ \E d \in Dirs : LoopCancelled(d))

\* ------------------------------------------------------------------ claims

LoopEnded == \E d \in Dirs : task[d].st \in Ended

\* The frames forwarded in direction d, as written on the destination.
Forwarded(d) ==
    [i \in 1..Len(Events(Dst(d), "fwd")) |-> Events(Dst(d), "fwd")[i].f]

IsPrefix(a, b) == Len(a) <= Len(b) /\ \A i \in 1..Len(a) : a[i] = b[i]

ClientErrors == Events("client", "error")

ClientCloses == Events("client", "close")

ServerCloses == Events("server", "close")

\* C1: once either forwarding loop has ended, for any reason, the session
\* completes its teardown, whatever the peers do or do not send afterwards.
C1_TeardownCompletes == LoopEnded ~> (pc = "done")

\* Upstream ended while the client never sent a frame and is still open;
\* the client->server loop was cancelled and the session is done.
C1_Witness ==
    /\ pc = "done"
    /\ task["s2c"].st \in {"clean", "error"}
    /\ task["c2s"].st = "cancelled"
    /\ conn["client"] = "OPEN"
    /\ inq["c2s"] = <<>> /\ recvd["c2s"] = <<>>

\* C2: a loop that was cancelled ends as cancelled, never with an error, and
\* when the loop that finished first ended cleanly the session carries no
\* error and writes no error frame to the client.
C2_CancelIsClean ==
    \A d \in Dirs :
        (cancelReq[d] /\ task[d].st \in Ended) =>
            /\ task[d].st = "cancelled"
            /\ (task[Other(d)].st = "clean" =>
                    err = NoErr /\ ClientErrors = <<>>)

C2_Witness ==
    \E d \in Dirs :
        /\ pc = "done"
        /\ cancelReq[d]
        /\ task[d].st = "cancelled"
        /\ task[Other(d)].st = "clean"

\* C3: in each direction the frames written to the destination are, at all
\* times, a prefix of the frames read from the source, kind and payload
\* unchanged.
C3_ForwardedVerbatim == \A d \in Dirs : IsPrefix(Forwarded(d), recvd[d])

\* Two different text frames were forwarded in one direction, the first
\* one JSON, the second not.
C3_Witness ==
    \E d \in Dirs :
        /\ Len(Forwarded(d)) = 2
        /\ Forwarded(d)[1].kind = "text" /\ Forwarded(d)[2].kind = "text"
        /\ json_loads(Forwarded(d)[1].payload).ok
        /\ ~json_loads(Forwarded(d)[2].payload).ok

\* C4: every forwarded frame was written while its destination was OPEN,
\* and a loop that found its destination not OPEN ended cleanly without
\* having written the frame it held.
C4_ForwardOnlyWhenOpen ==
    /\ \A c \in Conns : \A i \in 1..Len(wire[c]) :
           wire[c][i].t = "fwd" => wire[c][i].st = "OPEN"
    /\ \A d \in Dirs :
           brk[d] \in {"target_closed", "not_sent"} =>
               /\ task[d].st = "clean"
               /\ Len(Forwarded(d)) < Len(recvd[d])

\* A loop forwarded one frame, the peer then began closing the destination,
\* and the loop's check on its next frame found it not OPEN.
C4_Witness ==
    \E d \in Dirs :
        /\ brk[d] = "target_closed"
        /\ conn[Dst(d)] = "CLOSING"
        /\ Len(Forwarded(d)) = 1
        /\ Len(recvd[d]) = 2

\* C5: when the error carried into teardown comes from a loop that ended
\* with a WebSocketError of code c, the client is closed with code c.
C5_CloseCodeKept ==
    \A d \in Dirs :
        (pc = "done" /\ err.origin = d /\ ClientCloses # <<>>) =>
            /\ ClientCloses[1].code = task[d].code
            /\ ClientCloses[1].msg = task[d].msg

\* C6: a loop whose send failed ends with a WebSocketError, and the session
\* ends carrying an error.
C6_SendFailureIsError ==
    \A d \in Dirs :
        brk[d] = "send_failed" =>
            /\ task[d].st = "error"
            /\ (pc = "done" => err # NoErr)

\* C7: after a relay that ended with no error, the client has been closed
\* by the session with code 1000 unless its peer closed it first, and
\* neither connection is left OPEN.
C7_CleanClosesBoth ==
    (pc = "done" /\ LoopEnded /\ err = NoErr) =>
        /\ conn["client"] # "OPEN"
        /\ conn["server"] # "OPEN"
        /\ (peerCode["client"] = 0 =>
                Len(ClientCloses) = 1 /\ ClientCloses[1].code = 1000)

\* C8: once the upstream connection was opened, the finished session leaves
\* it not OPEN, and has closed it itself unless the peer closed it first.
C8_UpstreamClosed ==
    (pc = "done" /\ conn["server"] # "NONE") =>
        /\ conn["server"] # "OPEN"
        /\ (peerCode["server"] = 0 =>
                Len(ServerCloses) = 1 /\ ServerCloses[1].code = 1000)

\* A clean relay ended and the session closed the still-open upstream.
C8_Witness ==
    /\ pc = "done"
    /\ LoopEnded
    /\ err = NoErr
    /\ peerCode["server"] = 0
    /\ Len(ServerCloses) = 1

\* C9: after a failed connect no forwarding loop is ever started, at most
\* one error frame is written to the client, its message is not empty, any
\* close of the client uses code 1011, and a client that did not leave by
\* itself gets exactly one error frame and one close.
C9_ConnectFailure ==
    err.origin = "connect" =>
        /\ \A d \in Dirs : task[d].st = "none" /\ lpc[d] = "idle"
        /\ wire["server"] = <<>>
        /\ Len(ClientErrors) <= 1
        /\ \A i \in 1..Len(ClientErrors) : ClientErrors[i].msg # <<>>
        /\ \A i \in 1..Len(ClientCloses) : ClientCloses[i].code = 1011
        /\ (pc = "done" /\ peerCode["client"] = 0 =>
                /\ Len(ClientErrors) = 1
                /\ Len(ClientCloses) = 1
                /\ wire["client"] = <<ClientErrors[1], ClientCloses[1]>>
                /\ conn["client"] = "CLOSED")

\* The connector failed with an empty cause and the client stayed until it
\* was closed.
C9_Witness ==
    /\ pc = "done"
    /\ err.origin = "connect"
    /\ Len(err.msg) = 1
    /\ peerCode["client"] = 0
    /\ Len(ClientErrors) = 1

\* C10: after a failed setup send no forwarding loop is started, the error
\* carries code 1011, the finished session leaves the upstream not OPEN,
\* and a client that did not leave by itself gets the error frame and a
\* close with code 1011.
C10_SetupFailure ==
    err.origin = "setup" =>
        /\ \A d \in Dirs : task[d].st = "none" /\ lpc[d] = "idle"
        /\ err.code = 1011
        /\ (pc = "done" =>
                /\ conn["server"] \in {"CLOSING", "CLOSED"}
                /\ (peerCode["server"] = 0 => Len(ServerCloses) = 1))
        /\ (pc = "done" /\ peerCode["client"] = 0 =>
                /\ Len(ClientErrors) = 1
                /\ Len(ClientCloses) = 1
                /\ ClientCloses[1].code = 1011)

\* The setup send failed on an upstream that was still OPEN, and the
\* session closed it.
C10_Witness ==
    /\ pc = "done"
    /\ err.origin = "setup"
    /\ peerCode["server"] = 0
    /\ Len(ServerCloses) = 1
    /\ peerCode["client"] = 0

\* C11: when the wait for the first frame times out, the connector is never
\* called, no upstream connection exists, no error frame is written, and a
\* client that was still OPEN is closed with code 4001 and the reason
\* "Authentication timeout" and nothing else is written to it.
C11_AuthTimeout ==
    auth_message = "TimeoutError" =>
        /\ pc = "done"
        /\ connectCalls = 0
        /\ conn["server"] = "NONE"
        /\ handoff = NoHandoff
        /\ ClientErrors = <<>>
        /\ conn["client"] # "OPEN"
        /\ (peerCode["client"] = 0 =>
                wire["client"] =
                    <<CloseEv(4001, <<"Authentication timeout">>, "OPEN")>>)
        /\ (peerCode["client"] # 0 => wire["client"] = <<>>)

\* The wait timed out on a client that was still connected.
C11_Witness ==
    /\ auth_message = "TimeoutError"
    /\ peerCode["client"] = 0
    /\ conn["client"] = "CLOSED"

\* C12: when the first frame is a mapping whose api_key is absent or empty,
\* the session fails with WebSocketError code 4000, the connector is never
\* called, and a client that stayed gets the error frame and then a close
\* with code 4000.
C12_MissingKey ==
    auth_message \in {"{}", "{api_key:''}"} =>
        /\ err.origin = "auth"
        /\ err.code = 4000
        /\ pc \in {"hc_send", "hc_close", "done"}
        /\ connectCalls = 0
        /\ conn["server"] = "NONE"
        /\ handoff = NoHandoff
        /\ \A i \in 1..Len(ClientCloses) : ClientCloses[i].code = 4000
        /\ (pc = "done" /\ peerCode["client"] = 0 =>
                /\ Len(ClientErrors) = 1
                /\ Len(ClientCloses) = 1
                /\ wire["client"] = <<ClientErrors[1], ClientCloses[1]>>
                /\ conn["client"] = "CLOSED")

\* A mapping with an empty api_key was rejected and the client closed.
C12_Witness ==
    /\ pc = "done"
    /\ auth_message = "{api_key:''}"
    /\ peerCode["client"] = 0
    /\ Len(ClientCloses) = 1

\* C13: when the first frame is a mapping with no api_key but a bearer_token
\* that encodes a mapping with api_key k2, create_proxy is entered with k2
\* and the session does not fail with code 4000.
C13_BearerUnwrapped ==
    auth_message = "{bearer_token:'{api_key:k2}'}" =>
        /\ err.code # 4000
        /\ pc = "connect"
        /\ handoff.api_key = "k2"

Fatal ==
    \/ auth_message = "TimeoutError"
    \/ err # NoErr
    \/ \E d \in Dirs : task[d].st = "error"

\* The handlers have returned and the client is closed: by the session's own
\* close with the code of the path if the peer had not closed before.
FatalClosed ==
    /\ pc = "done"
    /\ conn["client"] # "OPEN"
    /\ (peerCode["client"] = 0 =>
            /\ Len(ClientCloses) = 1
            /\ ClientCloses[1].code =
                   (IF auth_message = "TimeoutError" THEN 4001 ELSE err.code)
            /\ ClientCloses[1].code \in {4000, 4001, 1011})

\* No error frame is written to the client after a close was issued on it.
ErrorBeforeClose ==
    \A i, j \in 1..Len(wire["client"]) :
        (wire["client"][i].t = "close" /\ wire["client"][j].t = "error") => j < i

C16_CloseIdempotent ==
    \A c \in Conns :
        /\ Len(Events(c, "close")) <= 1
        /\ \A i \in 1..Len(Events(c, "close")) : Events(c, "close")[i].st = "OPEN"
        /\ (peerCode[c] # 0 => Events(c, "close") = <<>>)

\* The finally block ran on an upstream connection its peer had closed, and
\* no close frame was written to it.
C16_Witness ==
    /\ pc = "done"
    /\ connectCalls = 1
    /\ peerCode["server"] # 0
    /\ ServerCloses = <<>>

\* C17: websockets.connect is called at most once per client connection,
\* whatever the first frame was and whatever failed later: once it has been
\* called the session never stands before the connect again, and at most
\* one setup message is ever written.
C17_ConnectOnce ==
    /\ connectCalls <= 1
    /\ (pc = "connect" => connectCalls = 0)
    /\ (connectCalls = 1 => auth_message = "used")
    /\ Len(Events("server", "setup")) <= 1

\* The one connect attempt failed and the handlers returned.
C17_Witness ==
    /\ pc = "done"
    /\ connectCalls = 1
    /\ err.origin = "connect"

\* C18: once both tasks have ended, an exception of either is carried into
\* the handlers, and when both were done with an exception as asyncio.wait
\* returned, the one carried is that of the task that ended first.
C18_FirstErrorWins ==
    /\ (pc \in {"cp_send", "cp_close", "finally", "done"}
        /\ (\E d \in Dirs : task[d].st = "error")
            => err.origin \in Dirs)
    /\ (done = Dirs
        /\ (\A d \in Dirs : task[d].st = "error")
        /\ err.origin \in Dirs
            => err.origin = order[1])

\* The handlers and the finally block run only when no forwarding task is
\* running any more, and no task exists before the setup message was sent.
TeardownAfterLoops ==
    /\ (pc \notin {"wait", "cancel"} =>
            \A d \in Dirs : task[d].st # "running")
    /\ (pc \in {"auth", "hc_send", "hc_close", "connect", "setup"} =>
            \A d \in Dirs : task[d] = NoTask)

\* On each connection the forwarded frames come before the error frame and
\* the close of the session, and on the upstream after the setup message.
WritesInOrder ==
    \A c \in Conns : \A i, j \in 1..Len(wire[c]) :
        /\ (wire[c][i].t = "fwd" /\ wire[c][j].t \in {"error", "close"} => i < j)
        /\ (wire[c][i].t = "setup" /\ i # j => i < j)

\* A step that writes to connection c is taken either by the one loop whose
\* target c is, while that loop is alive, or by the session while no task
\* is running.
OneWriter ==
    \A c \in Conns :
        wire'[c] # wire[c] =>
            \/ /\ pc = "wait"
               /\ \E d \in Dirs :
                      /\ Dst(d) = c
                      /\ Alive(d)
                      /\ lpc[d] = "send"
                      /\ wire'[c] = Append(wire[c], FwdEv(Message(d), conn[c]))
            \/ /\ pc # "wait"
               /\ pc' # pc
               /\ \A d \in Dirs : task[d].st # "running"

\* C19: no connection has two writers at a time: while forwarding, only the
\* client->server loop writes to the upstream and only the server->client
\* loop to the client, and the error frame and the closes of the session are
\* written only after both loops have stopped.
C19_SingleWriter ==
    /\ []TeardownAfterLoops
    /\ []WritesInOrder
    /\ [][OneWriter]_vars

\* The server->client loop wrote to the client, and after it had stopped the
\* session wrote the error frame and the close.
C19_Witness ==
    /\ pc = "done"
    /\ Forwarded("s2c") # <<>>
    /\ Len(ClientErrors) = 1
    /\ Len(ClientCloses) = 1

\* C20: the handlers run at most once per client connection: at most one
\* error frame and at most one close are written to the client, also when
\* both tasks failed, and an error create_proxy has handled never reaches
\* the except clauses of handle_client.
C20_TeardownOnce ==
    /\ Len(ClientErrors) <= 1
    /\ Len(ClientCloses) <= 1
    /\ (pc \in {"hc_send", "hc_close"} =>
            /\ err.origin \in {"auth", "auth_recv"}
            /\ connectCalls = 0)

\* Both tasks had failed when asyncio.wait returned, and the client got one
\* error frame and one close.
C20_Witness ==
    /\ pc = "done"
    /\ done = Dirs
    /\ \A d \in Dirs : task[d].st = "error"
    /\ Len(ClientErrors) = 1
    /\ Len(ClientCloses) = 1

====
